---- MODULE Spec2Model ----
(***************************************************************************)
(* Model of fabric/io.py: output_loop (the remote-output relay with its    *)
(* password-prompt handling) and input_loop (the local-input relay),       *)
(* together with the parts of fabric/state.py they read (the output        *)
(* dictionary, an _AliasDict), and of run_once of fabric/decorators.py.    *)
(*                                                                         *)
(* Bytes are one-character strings.  The two prompt strings of env are     *)
(* configurable; the model runs with short ones over a four-byte alphabet  *)
(* so that every tail comparison of _endswith can be exercised.            *)
(* None and '' are both false under Python's `not password`; both are the  *)
(* empty sequence here.                                                    *)
(***************************************************************************)
EXTENDS Integers, Sequences, FiniteSets, TLC

LF == "\n"
CR == "\r"

\* The bytes the remote side can emit.
Byte == {"p", "s", LF, CR}

\* Bounds of the model.
MaxBytes == 6
MaxRawBytes == 3
MaxTyped == 3
MaxLiveBytes == 4
MaxOnceCalls == 4
MaxTwinBytes == 5
MaxConcBytes == 4

\* env.sudo_prompt and env.again_prompt (shortened).
sudo_prompt == <<"p", "s">>
again_prompt == <<"s">>

\* The strings an operator can type at prompt_for_password.
Passwords == {<<"a">>, <<"b">>}
None == <<>>

\* The keys the local input source can deliver.
Keys == {"k", "l"}

\* The two streams of a channel, named after the channel method read.
Streams == {"recv", "recv_stderr"}

\* Capture buffers a caller may hand in.
InitialBuffers == {<<>>, <<"s">>}

VARIABLES
    loop,          \* loop[which]: locals and observations of output_loop
    env_password,  \* the credential cache behind get_password/set_password
    output,        \* fabric.state.output, the printing flags by level
    inp,           \* locals and observations of input_loop
    finished,      \* chan.exit_status_ready()
    stdin,         \* bytes made available locally and not yet read
    assigned,      \* the last output[key] = value executed, if any
    decorated,     \* a function wrapped by run_once, and its calls so far
    twin           \* two output_loop runs fed the same input, printing on/off

vars == <<loop, env_password, output, inp, finished, stdin,
          assigned, decorated, twin>>

----------------------------------------------------------------------------
(* Pure helpers                                                            *)

\* Python slice seq[-n:] for n >= 0 (-0 is 0, so n = 0 yields the whole list).
SliceFromEnd(seq, n) ==
    IF n = 0 \/ n >= Len(seq) THEN seq
    ELSE SubSeq(seq, Len(seq) - n + 1, Len(seq))

\* Python slice seq[:n] for n >= 0.
SliceTo(seq, n) ==
    IF n >= Len(seq) THEN seq ELSE SubSeq(seq, 1, n)

\* A deletion that leaves the first byte of the prompt behind.
DelFromEndOffByOne(seq, n) ==
    IF n <= 1 \/ n - 1 >= Len(seq) THEN <<>>
    ELSE SubSeq(seq, 1, Len(seq) - (n - 1))

\* del seq[-n:] for n >= 0.
DelFromEnd(seq, n) ==
    IF n = 0 \/ n >= Len(seq) THEN <<>>
    ELSE SubSeq(seq, 1, Len(seq) - n)

\* A comparison of the last byte only.
_endswith_last_byte(char_list, substring) ==
    /\ char_list # <<>>
    /\ substring # <<>>
    /\ char_list[Len(char_list)] = substring[Len(substring)]

\* A comparison over as many bytes as the list has, when it has fewer.
_endswith_short_list(char_list, substring) ==
    LET n == IF Len(char_list) < Len(substring)
             THEN Len(char_list) ELSE Len(substring)
    IN  /\ n > 0
        /\ SliceFromEnd(char_list, n) = SliceFromEnd(substring, n)

\* _endswith(char_list, substring), lines 18-21.
_endswith(char_list, substring) ==
    LET tail == SliceFromEnd(char_list, Len(substring))
    IN  tail = substring

\* "[%s] %s: " % (env.host_string, prefix), one display item.
_prefix(which) ==
    IF which = "recv" THEN <<"[host] out: ">> ELSE <<"[host] err: ">>

\* pipe = sys.stdout for recv, sys.stderr otherwise.
pipe(which) == IF which = "recv" THEN "stdout" ELSE "stderr"

\* _flush(pipe, text) as seen by one invocation.
_flush(l, p, text) == [l EXCEPT ![p] = @ \o text]

\* Asking on every prompt.
MustAskAlways(password, reprompt) == TRUE

\* Asking only when nothing is cached.
MustAskWithoutPasswordOnly(password, reprompt) == password = None

\* (not password) or reprompt
MustAsk(password, reprompt) == password = None \/ reprompt

\* The password without its line feed.
PasswordWithoutNewline(password) == password

\* password + '\n'
PasswordLine(password) == password \o <<LF>>

\* capture += byte / del capture[...]: in place, so the caller's list changes
\* with it for as long as the local name still refers to the caller's list.
SetCapture(l, new) ==
    [l EXCEPT !.capture = new,
              !.callerBuf = IF l.sameList THEN new ELSE @]

\* fabric.auth, as output_loop uses it: get_password() returns what the
\* last set_password() stored for the connection, None before any.
get_password == env_password
set_password(password) == env_password' = password

\* The event log of an invocation: which statements ran, in order.
Log(l, ev) == [l EXCEPT !.events = Append(@, ev)]

----------------------------------------------------------------------------
(* State after import of fabric.state, before any relay is started.        *)

\* fabric.state.output: the aliases of lines 402-405 and the initial
\* contents of lines 393-402.
aliases ==
    [everything |-> <<"warnings", "running", "user", "output">>,
     output |-> <<"stdout", "stderr">>]

OutputDefaults ==
    [status |-> TRUE, aborts |-> TRUE, warnings |-> TRUE, running |-> TRUE,
     stdout |-> TRUE, stderr |-> TRUE, debug |-> FALSE, user |-> TRUE]

\* AttributeDict.__setitem__: self._data[key] = value.
StoreItem(d, key, value) ==
    [k \in (DOMAIN d) \cup {key} |-> IF k = key THEN value ELSE d[k]]

RECURSIVE __setitem__(_, _, _)
RECURSIVE SetEachAliased(_, _, _)

\* An alias stored under the names its list gives, aliases among them
\* included, without following them.
SetItemOneLevel(d, key, value) ==
    IF key \in DOMAIN aliases
    THEN [k \in (DOMAIN d) \cup {aliases[key][i] : i \in DOMAIN aliases[key]}
            |-> IF \E i \in DOMAIN aliases[key] : aliases[key][i] = k
                THEN value ELSE d[k]]
    ELSE StoreItem(d, key, value)

\* _AliasDict.__setitem__, lines 368-373.
__setitem__(d, key, value) ==
    IF key \in DOMAIN aliases
    THEN SetEachAliased(d, aliases[key], value)
    ELSE StoreItem(d, key, value)

\* Lines 370-371: for aliased in self.aliases[key]: self[aliased] = value.
SetEachAliased(d, keys, value) ==
    IF keys = <<>>
    THEN d
    ELSE SetEachAliased(__setitem__(d, Head(keys), value), Tail(keys), value)

RECURSIVE expand_aliases(_)

\* _AliasDict.expand_aliases, lines 375-382.
expand_aliases(keys) ==
    IF keys = <<>>
    THEN <<>>
    ELSE (IF Head(keys) \in DOMAIN aliases
          THEN expand_aliases(aliases[Head(keys)])
          ELSE <<Head(keys)>>) \o expand_aliases(Tail(keys))

IdleLoop ==
    [pc |-> "idle", captureIsNone |-> FALSE, capture |-> <<>>,
     callerBuf |-> <<>>, sameList |-> TRUE, initBuf |-> <<>>,
     printing |-> TRUE, reprompt |-> FALSE,
     initial_prefix_printed |-> FALSE, byte |-> "", password |-> None,
     received |-> <<>>, stdout |-> <<>>, stderr |-> <<>>,
     sent |-> <<>>, events |-> <<>>]

IdleInput ==
    [pc |-> "idle", using_pty |-> FALSE, echo_stdin |-> TRUE,
     have_char |-> FALSE, byte |-> "", typed |-> <<>>, sent |-> <<>>,
     echoed |-> <<>>, sentAtFinish |-> 0, echoedAtFinish |-> 0]

\* A function just wrapped by run_once: no return_value attribute yet.
IdleDecorated ==
    [has_return_value |-> FALSE, return_value |-> <<>>, runs |-> 0,
     calls |-> <<>>]

IdleTwin ==
    [which |-> "recv", on |-> IdleLoop, off |-> IdleLoop,
     on_password |-> None, off_password |-> None]

Init ==
    /\ loop = [w \in Streams |-> IdleLoop]
    /\ env_password = None
    /\ output = OutputDefaults
    /\ inp = IdleInput
    /\ finished = FALSE
    /\ stdin = <<>>
    /\ assigned = <<>>
    /\ decorated = IdleDecorated
    /\ twin = IdleTwin

----------------------------------------------------------------------------
(* output_loop                                                             *)

NoneRunning == \A w \in Streams : loop[w].pc = "idle"

\* Lines 36-39: the locals of a fresh invocation.
StartFrame(isNone, buf, printing) ==
    [IdleLoop EXCEPT
        !.pc = "read",
        !.captureIsNone = isNone,
        !.capture = buf, !.callerBuf = buf, !.initBuf = buf,
        !.printing = printing]

\* output_loop(chan, which, capture) up to the first read: lines 24-39.
StartLoop(which, isNone, buf) ==
    /\ loop[which].pc = "idle"
    /\ loop' = [loop EXCEPT ![which] =
          StartFrame(isNone, buf,
                     output'[IF which = "recv" THEN "stdout" ELSE "stderr"])]
    /\ UNCHANGED <<env_password, inp, finished, stdin,
                 assigned, decorated, twin>>

\* output['output'] = flag: the alias sets output.stdout and output.stderr.
SetOutput(flag) == output' = __setitem__(output, "output", flag)

\* A caller that shows or hides remote output and then runs one relay at a
\* time, any number of times; the credential cache stays as it is.
Call ==
    /\ NoneRunning
    /\ \E which \in Streams :
          \/ /\ UNCHANGED output
             /\ StartLoop(which, TRUE, <<>>)
          \/ \E buf \in InitialBuffers, flag \in BOOLEAN :
                /\ SetOutput(flag)
                /\ StartLoop(which, FALSE, buf)

\* output_loop has returned (the break of line 44); its frame is gone.
Return(which) ==
    /\ loop[which].pc = "done"
    /\ loop' = [loop EXCEPT ![which] = IdleLoop]
    /\ UNCHANGED <<env_password, output, inp, finished, stdin,
                 assigned, decorated, twin>>

\* The initial prefix never marked as printed.
PrintByteUnmarked(l, which, b) ==
    IF l.printing
    THEN LET l1 == IF ~l.initial_prefix_printed
                   THEN _flush(l, pipe(which), _prefix(which))
                   ELSE l
             l2 == _flush(l1, pipe(which), <<b>>)
         IN  IF b \in {LF, CR}
             THEN _flush(l2, pipe(which), _prefix(which))
             ELSE l2
    ELSE l

\* The byte stored by the display block as well.
PrintByteStoring(l, which, b) ==
    IF l.printing
    THEN LET l1 == IF ~l.initial_prefix_printed
                   THEN [_flush(l, pipe(which), _prefix(which))
                            EXCEPT !.initial_prefix_printed = TRUE]
                   ELSE l
             l2 == _flush(l1, pipe(which), <<b>>)
             l3 == SetCapture(l2, Append(l2.capture, b))
         IN  IF b \in {LF, CR}
             THEN _flush(l3, pipe(which), _prefix(which))
             ELSE l3
    ELSE l

\* Lines 56-65: tee the byte to the display.
PrintByte(l, which, b) ==
    IF l.printing
    THEN LET l1 == IF ~l.initial_prefix_printed
                   THEN [_flush(l, pipe(which), _prefix(which))
                            EXCEPT !.initial_prefix_printed = TRUE]
                   ELSE l
             l2 == _flush(l1, pipe(which), <<b>>)
         IN  IF b \in {LF, CR}
             THEN _flush(l2, pipe(which), _prefix(which))
             ELSE l2
    ELSE l

\* Lines 53-72 and 103-107: capture mode, one byte.
CaptureByte(l, which, b) ==
    LET l1 == PrintByte(l, which, b)
        l2 == SetCapture(l1, Append(l1.capture, b))
        prompt == _endswith(l2.capture, sudo_prompt)
        try_again == \/ _endswith(l2.capture, again_prompt \o <<LF>>)
                     \/ _endswith(l2.capture, again_prompt \o <<CR, LF>>)
    IN  IF prompt
        THEN Log([l2 EXCEPT !.pc = "prompt"], "prompt")
        ELSE IF try_again
        THEN Log([l2 EXCEPT
                    \* capture = capture[:len(env.again_prompt)] binds the
                    \* local name to a new list
                    !.capture = SliceTo(l2.capture, Len(again_prompt)),
                    !.sameList = FALSE,
                    !.reprompt = TRUE], "retry")
        ELSE l2

\* Open_shell mode handled like run/sudo.
RawByteAsCapture(l, which, b) == CaptureByte(l, which, b)

\* Lines 46-50: open_shell mode, one byte.
RawByte(l, which, b) == _flush(l, "stdout", <<b>>)

\* An empty read that does not leave the loop.
EndFrameContinues(l) == l

\* Lines 43-44: func(1) returned ''.
EndFrame(l) == Log([l EXCEPT !.pc = "done", !.byte = ""], "eof")

EndOfStream(which) ==
    /\ loop[which].pc = "read"
    /\ loop' = [loop EXCEPT ![which] = EndFrame(@)]
    /\ UNCHANGED <<env_password, output, inp, finished, stdin,
                 assigned, decorated, twin>>

\* Lines 42-72, 103-107: one iteration up to the prompt branch, on byte b.
RecvFrame(l, which, b) ==
    LET l0 == Log([l EXCEPT !.byte = b, !.received = Append(@, b)], "read")
    IN  IF l0.captureIsNone
        THEN RawByte(l0, which, b)
        ELSE CaptureByte(l0, which, b)

Recv(which) ==
    /\ loop[which].pc = "read"
    /\ Len(loop[which].received) <
          (IF loop[which].captureIsNone THEN MaxRawBytes ELSE MaxBytes)
    /\ \E b \in Byte :
          loop' = [loop EXCEPT ![which] = RecvFrame(@, which, b)]
    /\ UNCHANGED <<env_password, output, inp, finished, stdin,
                 assigned, decorated, twin>>

\* One reprompt flag for all relays instead of a local of each.
GetPasswordFrameSharedFlag(l, cached) ==
    LET l1 == [l EXCEPT !.password = cached]
        l2 == SetCapture(l1, DelFromEnd(l1.capture, Len(sudo_prompt)))
        anyReprompt == \E w \in Streams : loop[w].reprompt
    IN  Log([l2 EXCEPT !.pc = IF MustAsk(l2.password, anyReprompt)
                              THEN "ask" ELSE "send"], "del")

\* Lines 74-81: get_password() returned cached; then the prompt is stripped
\* from the buffer.
GetPasswordFrame(l, cached) ==
    LET l1 == [l EXCEPT !.password = cached]
        l2 == SetCapture(l1, DelFromEnd(l1.capture, Len(sudo_prompt)))
    IN  Log([l2 EXCEPT !.pc = IF MustAsk(l2.password, l2.reprompt)
                              THEN "ask" ELSE "send"], "del")

GetPassword(which) ==
    /\ loop[which].pc = "prompt"
    /\ loop' = [loop EXCEPT ![which] = GetPasswordFrame(@, get_password)]
    /\ UNCHANGED <<env_password, output, inp, finished, stdin,
                 assigned, decorated, twin>>

\* The context shown whether or not output is hidden.
PromptContextAlways(l, which) ==
    LET l1 == _flush(l, pipe(which), _prefix(which))
        l2 == IF l1.reprompt
              THEN _flush(l1, pipe(which),
                          again_prompt \o <<LF>> \o _prefix(which))
              ELSE l1
    IN  _flush(l2, pipe(which), sudo_prompt)

\* Lines 86-90: show why input is requested when output is hidden.
PromptContext(l, which) ==
    IF ~l.printing
    THEN LET l1 == _flush(l, pipe(which), _prefix(which))
             l2 == IF l1.reprompt
                   THEN _flush(l1, pipe(which),
                               again_prompt \o <<LF>> \o _prefix(which))
                   ELSE l1
         IN  _flush(l2, pipe(which), sudo_prompt)
    ELSE l

ContextFrame(l, which) == [PromptContext(l, which) EXCEPT !.pc = "asking"]

\* Lines 86-90, before the operator is asked.
ShowContext(which) ==
    /\ loop[which].pc = "ask"
    /\ loop' = [loop EXCEPT ![which] = ContextFrame(@, which)]
    /\ UNCHANGED <<env_password, output, inp, finished, stdin,
                 assigned, decorated, twin>>

\* Lines 94-96: prompt_for_password() returned answer.
AskFrame(l, answer) == Log([l EXCEPT !.password = answer, !.pc = "set"], "ask")

Ask(which) ==
    /\ loop[which].pc = "asking"
    /\ \E answer \in Passwords :
          loop' = [loop EXCEPT ![which] = AskFrame(@, answer)]
    /\ UNCHANGED <<env_password, output, inp, finished, stdin,
                 assigned, decorated, twin>>

\* A reset forgotten: reprompt stays as it was.
SetPasswordFrameKeepsReprompt(l) == Log([l EXCEPT !.pc = "send"], "set")

\* Lines 98-100, the loop's side: reprompt = False.
SetPasswordFrame(l) ==
    Log([l EXCEPT !.reprompt = FALSE, !.pc = "send"], "set")

\* The line sent is what gets stored.
StoredWithNewline(l) == PasswordLine(l.password)

\* Line 98: the value handed to set_password.
Stored(l) == l.password

\* Lines 98-100: set_password(password); reprompt = False.
SetPassword(which) ==
    /\ loop[which].pc = "set"
    /\ set_password(Stored(loop[which]))
    /\ loop' = [loop EXCEPT ![which] = SetPasswordFrame(@)]
    /\ UNCHANGED <<output, inp, finished, stdin,
                 assigned, decorated, twin>>

\* The cache read again at the moment of the write.
SendFrameCached(l) ==
    Log([l EXCEPT !.sent = Append(@, PasswordLine(env_password)),
                  !.pc = "read"], "send")

\* Line 102: chan.sendall(password + '\n').
SendFrame(l) ==
    Log([l EXCEPT !.sent = Append(@, PasswordLine(l.password)),
                  !.pc = "read"], "send")

Send(which) ==
    /\ loop[which].pc = "send"
    /\ loop' = [loop EXCEPT ![which] = SendFrame(@)]
    /\ UNCHANGED <<env_password, output, inp, finished, stdin,
                 assigned, decorated, twin>>

Next ==
    \/ Call
    \/ \E which \in Streams : Recv(which)
    \/ \E which \in Streams : EndOfStream(which)
    \/ \E which \in Streams : Return(which)
    \/ \E which \in Streams : GetPassword(which)
    \/ \E which \in Streams : ShowContext(which)
    \/ \E which \in Streams : Ask(which)
    \/ \E which \in Streams : SetPassword(which)
    \/ \E which \in Streams : Send(which)

Spec == Init /\ [][Next]_vars

\* The same relay on streams of at most MaxLiveBytes bytes, with every read
\* returning (a byte, or '' once the stream has ended), every request to the
\* operator answered and every other statement of the loop executed in turn.
RecvLive(which) ==
    /\ Len(loop[which].received) < MaxLiveBytes
    /\ Recv(which)

NextLive ==
    \/ Call
    \/ \E which \in Streams : RecvLive(which)
    \/ \E which \in Streams : EndOfStream(which)
    \/ \E which \in Streams : Return(which)
    \/ \E which \in Streams : GetPassword(which)
    \/ \E which \in Streams : ShowContext(which)
    \/ \E which \in Streams : Ask(which)
    \/ \E which \in Streams : SetPassword(which)
    \/ \E which \in Streams : Send(which)

LoopRuns(which) ==
    /\ WF_vars(RecvLive(which) \/ EndOfStream(which))
    /\ WF_vars(GetPassword(which))
    /\ WF_vars(ShowContext(which))
    /\ WF_vars(Ask(which))
    /\ WF_vars(SetPassword(which))
    /\ WF_vars(Send(which))

SpecLive ==
    Init /\ [][NextLive]_vars /\ \A which \in Streams : LoopRuns(which)

----------------------------------------------------------------------------
(* input_loop and its environment                                          *)

\* input_loop(chan, using_pty) is called; env.echo_stdin is as configured.
StartInput ==
    /\ inp.pc = "idle"
    /\ \E pty \in BOOLEAN, echo \in BOOLEAN :
          inp' = [inp EXCEPT !.pc = "test", !.using_pty = pty,
                             !.echo_stdin = echo]
    /\ UNCHANGED <<loop, env_password, output, finished, stdin,
                 assigned, decorated, twin>>

\* A loop test that never leaves the loop.
TestIgnoresFinished ==
    /\ inp.pc = "test"
    /\ inp' = [inp EXCEPT !.pc = "select"]
    /\ UNCHANGED <<loop, env_password, output, finished, stdin,
                 assigned, decorated, twin>>

\* Line 111: while not chan.exit_status_ready().
Test ==
    /\ inp.pc = "test"
    /\ inp' = [inp EXCEPT !.pc = IF finished THEN "done" ELSE "select"]
    /\ UNCHANGED <<loop, env_password, output, finished, stdin,
                 assigned, decorated, twin>>

\* A wait for input without a timeout.
SelectBlocks ==
    /\ inp.pc = "select"
    /\ stdin # <<>>
    /\ inp' = [inp EXCEPT !.have_char = TRUE, !.pc = "read"]
    /\ UNCHANGED <<loop, env_password, output, finished, stdin,
                 assigned, decorated, twin>>

\* Lines 112-117: msvcrt.kbhit(), or select() on sys.stdin for io_sleep.
Select ==
    /\ inp.pc = "select"
    /\ LET ready == stdin # <<>>
       IN  inp' = [inp EXCEPT !.have_char = ready,
                              !.pc = IF ready THEN "read" ELSE "test"]
    /\ UNCHANGED <<loop, env_password, output, finished, stdin,
                 assigned, decorated, twin>>

\* A read that leaves the byte in the input source.
ReadWithoutConsuming ==
    /\ inp.pc = "read"
    /\ inp' = [inp EXCEPT !.byte = Head(stdin), !.pc = "send"]
    /\ UNCHANGED <<loop, env_password, output, finished, stdin,
                 assigned, decorated, twin>>

\* Line 119: msvcrt.getch() or sys.stdin.read(1).
Read ==
    /\ inp.pc = "read"
    /\ inp' = [inp EXCEPT !.byte = Head(stdin), !.pc = "send"]
    /\ stdin' = Tail(stdin)
    /\ UNCHANGED <<loop, env_password, output, finished,
                 assigned, decorated, twin>>

\* Lines 120-122: chan.sendall(byte), then the echo test.
SendByte ==
    /\ inp.pc = "send"
    /\ inp' = [inp EXCEPT
                  !.sent = Append(@, inp.byte),
                  !.pc = IF ~inp.using_pty /\ inp.echo_stdin
                         THEN "echo" ELSE "test"]
    /\ UNCHANGED <<loop, env_password, output, finished, stdin,
                 assigned, decorated, twin>>

\* Lines 125-126: sys.stdout.write(byte); sys.stdout.flush().
Echo ==
    /\ inp.pc = "echo"
    /\ inp' = [inp EXCEPT !.echoed = Append(@, inp.byte), !.pc = "test"]
    /\ UNCHANGED <<loop, env_password, output, finished, stdin,
                 assigned, decorated, twin>>

\* The operator types a key.
Type ==
    /\ Len(inp.typed) < MaxTyped
    /\ \E k \in Keys :
          /\ stdin' = Append(stdin, k)
          /\ inp' = [inp EXCEPT !.typed = Append(@, k)]
    /\ UNCHANGED <<loop, env_password, output, finished,
                 assigned, decorated, twin>>

\* The remote process exits: exit_status_ready() is true from now on.
Finish ==
    /\ ~finished
    /\ finished' = TRUE
    /\ inp' = [inp EXCEPT !.sentAtFinish = Len(inp.sent),
                          !.echoedAtFinish = Len(inp.echoed)]
    /\ UNCHANGED <<loop, env_password, output, stdin,
                 assigned, decorated, twin>>

NextInput ==
    \/ StartInput
    \/ Test
    \/ Select
    \/ Read
    \/ SendByte
    \/ Echo
    \/ Type
    \/ Finish

SpecInput == Init /\ [][NextInput]_vars

\* input_loop scheduled: each statement it has reached is executed in turn.
\* Nothing is assumed of the operator or of the remote process.
SpecInputLive ==
    /\ Init /\ [][NextInput]_vars
    /\ WF_vars(Test) /\ WF_vars(Select) /\ WF_vars(Read)
    /\ WF_vars(SendByte) /\ WF_vars(Echo)

----------------------------------------------------------------------------
(* run_once                                                                *)

\* What the wrapped function is called with, and what its body computes.
Args == {1, 2, 3}
func(a) == <<"r", a>>

\* decorated(*args): lines 135-138.  The body of func either returns func(a)
\* or raises; an exception leaves line 137's assignment undone and
\* propagates to the caller.
CallDecorated ==
    /\ Len(decorated.calls) < MaxOnceCalls
    /\ \E a \in Args, raises \in BOOLEAN :
          IF ~decorated.has_return_value
          THEN IF raises
               THEN decorated' = [decorated EXCEPT
                       !.runs = @ + 1,
                       !.calls = Append(@, [args |-> a, ran |-> TRUE,
                                            returned |-> FALSE,
                                            value |-> <<>>])]
               ELSE decorated' = [decorated EXCEPT
                       !.runs = @ + 1,
                       !.has_return_value = TRUE,
                       !.return_value = func(a),
                       !.calls = Append(@, [args |-> a, ran |-> TRUE,
                                            returned |-> TRUE,
                                            value |-> func(a)])]
          ELSE /\ ~raises
               /\ decorated' = [decorated EXCEPT
                       !.calls = Append(@, [args |-> a, ran |-> FALSE,
                                            returned |-> TRUE,
                                            value |-> decorated.return_value])]
    /\ UNCHANGED <<loop, env_password, output, inp, finished, stdin,
                 assigned, twin>>

NextOnce == CallDecorated

SpecOnce == Init /\ [][NextOnce]_vars

----------------------------------------------------------------------------
(* _AliasDict: assignments to fabric.state.output                          *)

\* The keys a caller may assign: the levels, the two aliases and a new name.
AssignKeys == (DOMAIN OutputDefaults) \cup (DOMAIN aliases) \cup {"extra"}

\* output[key] = value (or output.key = value), lines 368-373.
Assign ==
    /\ \E key \in AssignKeys, value \in BOOLEAN :
          /\ output' = __setitem__(output, key, value)
          /\ assigned' = <<[key |-> key, value |-> value, before |-> output]>>
    /\ UNCHANGED <<loop, env_password, inp, finished, stdin, decorated, twin>>

NextAlias == Assign

SpecAlias == Init /\ [][NextAlias]_vars

----------------------------------------------------------------------------

(* Two capture-mode runs of output_loop on the same input, one with        *)
(* printing enabled and one with printing suppressed                       *)

\* One statement of output_loop on frame l: the read returns b ('' at the
\* end of the stream), the operator answers answer, get_password() returns
\* cache.
StepFrame(l, which, b, answer, cache) ==
    CASE l.pc = "read"   -> IF b = "" THEN EndFrame(l)
                                      ELSE RecvFrame(l, which, b)
      [] l.pc = "prompt" -> GetPasswordFrame(l, cache)
      [] l.pc = "ask"    -> ContextFrame(l, which)
      [] l.pc = "asking" -> AskFrame(l, answer)
      [] l.pc = "set"    -> SetPasswordFrame(l)
      [] l.pc = "send"   -> SendFrame(l)
      [] OTHER           -> l

\* The cache after that statement: line 98 stores, nothing else does.
StepCache(l, cache) == IF l.pc = "set" THEN Stored(l) ELSE cache

\* Both runs are started on the same stream selector, with equal buffers and
\* equal caches.
TwinStart ==
    /\ twin.on.pc = "idle"
    /\ \E which \in Streams, buf \in InitialBuffers,
          cached \in {None} \cup Passwords :
          twin' = [which |-> which,
                   on |-> StartFrame(FALSE, buf, TRUE),
                   off |-> StartFrame(FALSE, buf, FALSE),
                   on_password |-> cached,
                   off_password |-> cached]
    /\ UNCHANGED <<loop, env_password, output, inp, finished, stdin,
                 assigned, decorated>>

\* Each run executes its next statement; where they read or ask, both get
\* the same byte and the same answer.
TwinStep ==
    /\ twin.on.pc \notin {"idle", "done"} \/ twin.off.pc \notin {"idle", "done"}
    /\ \E b \in Byte \cup {""}, answer \in Passwords :
          /\ b # "" => /\ Len(twin.on.received) < MaxTwinBytes
                       /\ Len(twin.off.received) < MaxTwinBytes
          /\ twin' = [twin EXCEPT
                !.on = StepFrame(@, twin.which, b, answer, twin.on_password),
                !.off = StepFrame(@, twin.which, b, answer, twin.off_password),
                !.on_password = StepCache(twin.on, @),
                !.off_password = StepCache(twin.off, @)]
    /\ UNCHANGED <<loop, env_password, output, inp, finished, stdin,
                 assigned, decorated>>

\* Both runs have returned.
TwinReturn ==
    /\ twin.on.pc = "done"
    /\ twin.off.pc = "done"
    /\ twin' = IdleTwin
    /\ UNCHANGED <<loop, env_password, output, inp, finished, stdin,
                 assigned, decorated>>

NextTwin == TwinStart \/ TwinStep \/ TwinReturn

SpecTwin == Init /\ [][NextTwin]_vars

----------------------------------------------------------------------------

(* Two output_loop invocations, one per stream, running concurrently       *)
(* against one channel and one credential cache                            *)

\* The caller starts a relay on each stream, each with a list of its own,
\* and leaves the output settings and the credential cache as they are.
StartBoth ==
    /\ NoneRunning
    /\ \E bufs \in [Streams -> InitialBuffers] :
          loop' = [w \in Streams |->
                     StartFrame(FALSE, bufs[w],
                                output[IF w = "recv" THEN "stdout"
                                                     ELSE "stderr"])]
    /\ UNCHANGED <<env_password, output, inp, finished, stdin,
                 assigned, decorated, twin>>

\* Both relays have returned and were joined.
JoinBoth ==
    /\ \A w \in Streams : loop[w].pc = "done"
    /\ loop' = [w \in Streams |-> IdleLoop]
    /\ UNCHANGED <<env_password, output, inp, finished, stdin,
                 assigned, decorated, twin>>

\* Bytes the remote end has produced on both streams together.
Produced ==
    Len(loop["recv"].received) + Len(loop["recv_stderr"].received)

RecvConc(which) ==
    /\ Produced < MaxConcBytes
    /\ Recv(which)

\* Every statement of either relay may be the next to execute.
NextConc ==
    \/ StartBoth
    \/ JoinBoth
    \/ \E which \in Streams : RecvConc(which)
    \/ \E which \in Streams : EndOfStream(which)
    \/ \E which \in Streams : GetPassword(which)
    \/ \E which \in Streams : ShowContext(which)
    \/ \E which \in Streams : Ask(which)
    \/ \E which \in Streams : SetPassword(which)
    \/ \E which \in Streams : Send(which)

SpecConc == Init /\ [][NextConc]_vars

----------------------------------------------------------------------------

(* Vocabulary of the properties                                            *)

Started(w) == loop[w].pc # "idle"
Capturing(w) == Started(w) /\ ~loop[w].captureIsNone

\* seq ends with suf (suf not empty).
EndsWith(seq, suf) ==
    /\ Len(suf) <= Len(seq)
    /\ \A i \in 1..Len(suf) : seq[Len(seq) - Len(suf) + i] = suf[i]

Last(seq) == seq[Len(seq)]

PromptTail(seq) == EndsWith(seq, sudo_prompt)
RetryTail(seq) ==
    \/ EndsWith(seq, again_prompt \o <<LF>>)
    \/ EndsWith(seq, again_prompt \o <<CR, LF>>)

\* No prefix of the stream rec, appended to buf0, ends in a prompt string.
NoPromptTail(buf0, rec) ==
    \A k \in 1..Len(rec) :
        LET t == buf0 \o SubSeq(rec, 1, k)
        IN  ~PromptTail(t) /\ ~RetryTail(t)

\* Number of occurrences of ev in the event log evs.
Count(evs, ev) == Cardinality({i \in 1..Len(evs) : evs[i] = ev})

\* C1: in capture mode, as long as no prefix of the received bytes has left
\* the buffer tail equal to the password prompt or to the retry string plus
\* LF / CR LF, the capture buffer (the loop's and the caller's) is the
\* initial buffer followed by exactly the bytes received so far.
C1_CaptureIsConcatenation ==
    \A w \in Streams :
        (Capturing(w) /\ NoPromptTail(loop[w].initBuf, loop[w].received))
            => /\ loop[w].capture = loop[w].initBuf \o loop[w].received
               /\ loop[w].callerBuf = loop[w].initBuf \o loop[w].received

C1_Witness ==
    \E w \in Streams :
        /\ Capturing(w)
        /\ loop[w].pc = "done"
        /\ loop[w].initBuf = <<"s">>
        /\ loop[w].received = <<"p", LF, "s", CR, "p", "p">>
        /\ loop[w].capture = <<"s", "p", LF, "s", CR, "p", "p">>

\* C2: when the byte just appended makes the buffer tail equal to the
\* password prompt, the loop goes on to strip it, and the strip removes
\* exactly the prompt: the buffer before is the buffer after followed by the
\* prompt string.
C2_PromptStripped ==
    [][\A w \in Streams :
          /\ ( /\ Capturing(w)
               /\ loop[w].pc = "read"
               /\ Len(loop'[w].received) = Len(loop[w].received) + 1
               /\ PromptTail(Append(loop[w].capture, loop'[w].byte)) )
                => /\ loop'[w].pc = "prompt"
                   /\ loop'[w].capture = Append(loop[w].capture, loop'[w].byte)
          /\ (loop[w].pc = "prompt" /\ loop'[w].pc # "prompt")
                => /\ loop[w].capture = loop'[w].capture \o sudo_prompt
                   /\ Len(loop'[w].capture) =
                         Len(loop[w].capture) - Len(sudo_prompt)
                   /\ loop[w].sameList
                         => loop'[w].callerBuf = loop'[w].capture
      ]_vars

C2_Witness ==
    \E w \in Streams :
        /\ loop[w].events # <<>>
        /\ Last(loop[w].events) = "del"
        /\ loop[w].capture = <<"p", LF>>
        /\ loop[w].callerBuf = <<"p", LF>>
        /\ loop[w].received = <<"p", LF, "p", "s">>

\* The event log of one invocation follows the statement order of the loop:
\* what may come right before each event.
Follows(evs, i) ==
    LET prev == IF i = 1 THEN "start" ELSE evs[i - 1]
    IN  CASE evs[i] \in {"read", "eof"} -> prev \in {"start", "read", "retry", "send"}
          [] evs[i] \in {"prompt", "retry"} -> prev = "read"
          [] evs[i] = "del"  -> prev = "prompt"
          [] evs[i] = "ask"  -> prev = "del"
          [] evs[i] = "set"  -> prev = "ask"
          [] evs[i] = "send" -> prev \in {"del", "set"}

\* C3: within one invocation every password-prompt match is followed by
\* exactly one channel write, the resolved password plus a line feed; the
\* write comes after the prompt was cut from the buffer (with at most the
\* interactive request in between) and before the next read, and there is
\* no other channel write, none on a retry match in particular.
C3_OneWritePerPrompt ==
    \A w \in Streams :
        LET l == loop[w]
        IN  /\ \A i \in 1..Len(l.events) : Follows(l.events, i)
            /\ Len(l.sent) = Count(l.events, "send")
            /\ l.pc \in {"read", "done"}
                  => Len(l.sent) = Count(l.events, "prompt")
            /\ l.pc \in {"prompt", "ask", "asking", "set", "send"}
                  => Len(l.sent) + 1 = Count(l.events, "prompt")
            /\ (l.events # <<>> /\ Last(l.events) = "send")
                  => /\ Last(l.sent) = env_password \o <<LF>>
                     /\ env_password \in Passwords
                     /\ l.pc = "read"

C3_Witness ==
    \E w \in Streams :
        /\ loop[w].events = <<"read", "read", "prompt", "del", "ask", "set",
                              "send", "read", "read", "prompt", "del", "send",
                              "read", "retry">>
        /\ loop[w].sent = <<<<"b", LF>>, <<"b", LF>>>>

\* C4: a password-prompt match met with a password in the cache and reprompt
\* false goes straight to the channel write of the cached password: no
\* interactive request, nothing shown, cache untouched; also in a later
\* invocation, which finds the cache as the earlier one left it.
C4_CachedPasswordNotAsked ==
    [][\A w \in Streams :
          /\ ( /\ loop[w].pc = "prompt"
               /\ loop'[w].pc # "prompt"
               /\ env_password # None
               /\ ~loop[w].reprompt )
                => /\ loop'[w].pc = "send"
                   /\ loop'[w].password = env_password
                   /\ loop'[w].stdout = loop[w].stdout
                   /\ loop'[w].stderr = loop[w].stderr
                   /\ env_password' = env_password
          /\ ( /\ loop[w].pc = "send"
               /\ loop'[w].pc # "send"
               /\ Last(loop[w].events) = "del" )
                => /\ loop'[w].sent = Append(loop[w].sent,
                                             env_password \o <<LF>>)
                   /\ Count(loop'[w].events, "ask") = Count(loop[w].events, "ask")
                   /\ env_password' = env_password
          /\ (loop[w].pc \in {"idle", "done"} /\ loop'[w].pc # loop[w].pc)
                => env_password' = env_password
      ]_vars

C4_Witness ==
    \E w \in Streams :
        /\ env_password = <<"a">>
        /\ loop[w].events = <<"read", "read", "prompt", "del", "send">>
        /\ loop[w].sent = <<<<"a", LF>>>>

\* The last prompt or retry match before position i of the log, "none" if
\* there is none.
PrevMatch(evs, i) ==
    LET js == {j \in 1..(i - 1) : evs[j] \in {"prompt", "retry"}}
    IN  IF js = {} THEN "none"
        ELSE evs[CHOOSE j \in js : \A k \in js : k <= j]

\* C5: within one invocation, a password-prompt match whose preceding match
\* was a retry match is always resolved by asking the operator, whatever the
\* cache holds, and the relay then writes the answer and reads on; this
\* holds for every such match, however many rejections came before.
C5_AskAfterRetry ==
    \A w \in Streams :
        LET evs == loop[w].events
        IN  \A i \in 1..Len(evs) :
               (evs[i] = "prompt" /\ PrevMatch(evs, i) = "retry")
                  => /\ (i + 2 <= Len(evs)) => evs[i + 2] = "ask"
                     /\ (i + 1 = Len(evs)) =>
                            /\ loop[w].pc \in {"ask", "asking"}
                            /\ loop[w].reprompt
                     /\ (i = Len(evs)) => loop[w].reprompt
                     /\ (i + 4 = Len(evs)) => loop[w].pc = "read"

C5_Witness ==
    \E w \in Streams :
        /\ loop[w].events =
              <<"read", "retry", "read", "read", "prompt", "del", "ask",
                "set", "send", "read", "retry", "read", "read", "prompt",
                "del", "ask", "set", "send">>
        /\ loop[w].sent = <<<<"a", LF>>, <<"b", LF>>>>
        /\ loop[w].pc = "read"

\* The buffer with the line terminator that completed a retry tail removed.
WithoutTerminator(seq) ==
    IF EndsWith(seq, again_prompt \o <<CR, LF>>)
    THEN SubSeq(seq, 1, Len(seq) - 2)
    ELSE SubSeq(seq, 1, Len(seq) - 1)

\* C6: on a retry match the buffer is cut back to just after the retry
\* string: it is the buffer before the match, the byte just received
\* included, without the trailing LF or CR LF.
C6_RetryKeepsPrecedingBytes ==
    [][\A w \in Streams :
          Count(loop'[w].events, "retry") = Count(loop[w].events, "retry") + 1
             => loop'[w].capture =
                   WithoutTerminator(Append(loop[w].capture, loop'[w].byte))
      ]_vars

\* C7: the caller's buffer is the buffer the relay works on, at every step
\* of a capture-mode invocation, prompt and retry matches included.
C7_CallerBufferIsWorkingBuffer ==
    \A w \in Streams :
        Capturing(w) => /\ loop[w].sameList
                        /\ loop[w].callerBuf = loop[w].capture

\* What an open_shell invocation looks like at any step: every byte went to
\* sys.stdout unprefixed and in order, and nothing else happened.
RawState(w) ==
    LET l == loop[w]
    IN  /\ l.stdout = l.received
        /\ l.stderr = <<>>
        /\ l.sent = <<>>
        /\ l.pc \in {"read", "done"}
        /\ \A i \in 1..Len(l.events) : l.events[i] \in {"read", "eof"}
        /\ Count(l.events, "read") = Len(l.received)
        /\ ~l.reprompt
        /\ l.password = None
        /\ l.capture = <<>> /\ l.callerBuf = <<>>

\* C8: with capture None every received byte is written to sys.stdout as it
\* is, in order, whichever stream is read; no prompt is detected, the
\* operator is not asked, the credential cache is neither fetched nor set,
\* and nothing is written to the channel.
C8_RawPassthrough ==
    [][\A w \in Streams :
          (loop'[w].pc # "idle" /\ loop'[w].captureIsNone)
             => /\ RawState(w)'
                /\ loop[w].pc = "read" => env_password' = env_password
      ]_vars

C8_Witness ==
    \E w \in Streams :
        /\ w = "recv_stderr"
        /\ loop[w].captureIsNone
        /\ loop[w].pc = "done"
        /\ loop[w].received = <<"p", "s", LF>>
        /\ loop[w].stdout = <<"p", "s", LF>>
        /\ env_password = <<"a">>

\* C9 as stated: once exit_status_ready() is true, input_loop neither writes
\* to the channel nor echoes.
C9_NoWriteAfterFinished ==
    finished => /\ Len(inp.sent) = inp.sentAtFinish
                /\ Len(inp.echoed) = inp.echoedAtFinish

\* C9 amended: input_loop leaves at the first loop test that finds the flag
\* true and writes nothing after that test; a byte whose iteration passed
\* the test before the flag turned true is still sent (and echoed), so at
\* most one sendall and one echo happen after the flag has become true.
C9_StopsAtNextTest ==
    [][ /\ finished' => /\ Len(inp'.sent) <= inp'.sentAtFinish + 1
                        /\ Len(inp'.echoed) <= inp'.echoedAtFinish + 1
        /\ inp'.pc = "done" => finished'
        /\ (inp.pc = "test" /\ finished /\ inp'.pc # "test")
              => inp'.pc = "done"
        /\ inp.pc = "done" => /\ inp'.pc = "done"
                              /\ inp'.sent = inp.sent
                              /\ inp'.echoed = inp.echoed
      ]_vars

C9_Witness ==
    /\ finished
    /\ inp.pc = "done"
    /\ Len(inp.sent) = inp.sentAtFinish + 1
    /\ Len(inp.echoed) = inp.echoedAtFinish + 1
    /\ stdin # <<>>

IsPrefix(a, b) == Len(a) <= Len(b) /\ SubSeq(b, 1, Len(a)) = a

\* C10: the bytes input_loop has written to the channel, one byte per write,
\* are at every moment a prefix of the bytes made available locally: what
\* was typed is what was sent, then the byte in hand, then what is unread.
C10_ForwardsInOrder ==
    /\ IsPrefix(inp.sent, inp.typed)
    /\ \A i \in 1..Len(inp.sent) : inp.sent[i] \in Keys
    /\ inp.typed = inp.sent
                     \o (IF inp.pc = "send" THEN <<inp.byte>> ELSE <<>>)
                     \o stdin

C10_Witness ==
    /\ inp.typed = <<"k", "l", "l">>
    /\ inp.sent = <<"k", "l", "l">>
    /\ inp.echoed = <<"k", "l", "l">>

\* C11: output_loop leaves its loop exactly on an empty read: the step into
\* "done" is the empty read taken at the top of the loop, with every byte
\* read before it fully handled (one log entry per byte, every prompt match
\* answered by its write); and with reads that return and requests that are
\* answered, a started loop whose stream ends does terminate, whatever
\* prompt or retry matches occurred.
C11_TerminatesAtEndOfStream ==
    /\ [][\A w \in Streams :
             (loop'[w].pc = "done" /\ loop[w].pc # "done")
                => /\ loop[w].pc = "read"
                   /\ loop'[w].byte = ""
                   /\ loop'[w].events = Append(loop[w].events, "eof")
                   /\ loop'[w].received = loop[w].received
                   /\ loop'[w].capture = loop[w].capture
                   /\ loop'[w].sent = loop[w].sent
         ]_vars
    /\ [](\A w \in Streams :
             loop[w].pc = "done"
                => /\ Count(loop[w].events, "read") = Len(loop[w].received)
                   /\ Count(loop[w].events, "send")
                         = Count(loop[w].events, "prompt")
                   /\ Count(loop[w].events, "eof") = 1)
    /\ \A w \in Streams : (Started(w) ~> loop[w].pc = "done")

C11_Witness ==
    \E w \in Streams :
        /\ loop[w].pc = "done"
        /\ loop[w].received = <<LF, "p", "s", "p">>
        /\ loop[w].events = <<"read", "retry", "read", "read", "prompt",
                              "del", "ask", "set", "send", "read", "eof">>

\* C12: once the channel reports the remote process finished, a running
\* input_loop terminates, with or without local input: the wait for input
\* returns after the poll interval and the flag is tested again.
C12_InputLoopTerminates ==
    (finished /\ inp.pc # "idle") ~> (inp.pc = "done")

C12_Witness ==
    /\ inp.pc = "done"
    /\ finished
    /\ inp.typed = <<>>
    /\ inp.sent = <<>>

\* C13: whatever the calls and their arguments, the body of a function
\* wrapped by run_once executes at most once, and every call that returns
\* returns the value of that first execution.
C13_BodyRunsAtMostOnce ==
    /\ decorated.runs <= 1
    /\ \A i \in 1..Len(decorated.calls) :
          /\ decorated.calls[i].ran => i = 1
          /\ decorated.calls[i].returned =>
                decorated.calls[i].value = func(decorated.calls[1].args)

Range(seq) == {seq[i] : i \in DOMAIN seq}

\* C14: an assignment to an alias sets every key of the alias's expanded
\* list to the value, leaves every other key as it was and stores nothing
\* under the alias; no alias name is ever a key.  After
\* output['everything'] = v the keys warnings, running, user, stdout and
\* stderr hold v, and status, aborts and debug are as before.
C14_AliasSetsExpandedKeys ==
    /\ (DOMAIN output) \cap (DOMAIN aliases) = {}
    /\ \A i \in DOMAIN assigned :
          LET a == assigned[i]
              expanded == Range(expand_aliases(<<a.key>>))
          IN  /\ DOMAIN output = (DOMAIN a.before) \cup expanded
              /\ \A k \in expanded : output[k] = a.value
              /\ \A k \in (DOMAIN a.before) \ expanded :
                    output[k] = a.before[k]
              /\ a.key = "everything" =>
                    /\ \A k \in {"warnings", "running", "user",
                                 "stdout", "stderr"} : output[k] = a.value
                    /\ \A k \in {"status", "aborts", "debug"} :
                          output[k] = a.before[k]

C14_Witness ==
    /\ assigned = <<[key |-> "everything", value |-> FALSE,
                     before |-> [OutputDefaults EXCEPT !.debug = TRUE]]>>
    /\ output = [status |-> TRUE, aborts |-> TRUE, warnings |-> FALSE,
                 running |-> FALSE, stdout |-> FALSE, stderr |-> FALSE,
                 debug |-> TRUE, user |-> FALSE]

\* C15: reprompt is false when an invocation starts and as long as it has
\* met no retry match; it turns true only in the step that detects a retry
\* match; it is false once the handling of a password-prompt match has
\* reached the channel write.  So a password-prompt match whose preceding
\* match was a password-prompt match is resolved from the cache, without
\* asking: two such matches lead to at most one interactive request.
C15_RepromptFlag ==
    /\ [](\A w \in Streams :
            LET l == loop[w]
                evs == l.events
            IN  /\ PrevMatch(evs, Len(evs) + 1) = "none" => ~l.reprompt
                /\ (l.pc = "send" \/ (evs # <<>> /\ Last(evs) = "send"))
                      => ~l.reprompt
                /\ ( /\ PrevMatch(evs, Len(evs) + 1) = "prompt"
                     /\ l.pc \in {"read", "done"} ) => ~l.reprompt
                /\ \A i \in 1..Len(evs) :
                      (evs[i] = "prompt" /\ PrevMatch(evs, i) = "prompt")
                         => /\ (i + 2 <= Len(evs)) => evs[i + 2] = "send"
                            /\ (i + 1 = Len(evs)) =>
                                   /\ l.pc = "send"
                                   /\ l.password = env_password
                                   /\ l.password # None)
    /\ [][\A w \in Streams :
            (~loop[w].reprompt /\ loop'[w].reprompt)
               => /\ loop[w].pc = "read"
                  /\ loop'[w].events = loop[w].events \o <<"read", "retry">>
         ]_vars

C15_Witness ==
    \E w \in Streams :
        /\ loop[w].initBuf = <<"s">>
        /\ loop[w].received = <<LF, "p", "s", "p", "s">>
        /\ loop[w].events =
              <<"read", "retry", "read", "read", "prompt", "del", "ask",
                "set", "send", "read", "read", "prompt", "del", "send">>
        /\ Len(loop[w].sent) = 2
        /\ ~loop[w].reprompt

\* The buffer of w once the byte read in this step has been appended.
Appended(w) == Append(loop[w].capture, loop'[w].byte)

\* The step reads one byte in capture mode.
ReadsByte(w) ==
    /\ Capturing(w)
    /\ loop[w].pc = "read"
    /\ loop'[w].received # loop[w].received

\* C16: in capture mode, the step that reads a byte sets reprompt if and
\* only if the buffer with that byte appended ends in the retry string
\* followed by LF or by CR LF and does not end in the password prompt; any
\* other byte leaves reprompt as it was, in particular one that completes
\* the retry string alone or the retry string followed by CR.
C16_RetryIsExactTail ==
    [][\A w \in Streams :
          ReadsByte(w) =>
             LET retry == /\ RetryTail(Appended(w))
                          /\ ~PromptTail(Appended(w))
             IN  /\ retry <=> (Last(loop'[w].events) = "retry")
                 /\ retry => loop'[w].reprompt
                 /\ ~retry => loop'[w].reprompt = loop[w].reprompt
                 /\ ( \/ Last(Appended(w)) # LF
                      \/ Len(Appended(w)) <= Len(again_prompt)
                      \/ EndsWith(Appended(w), again_prompt)
                      \/ EndsWith(Appended(w), again_prompt \o <<CR>>) )
                       => /\ Last(loop'[w].events) # "retry"
                          /\ loop'[w].reprompt = loop[w].reprompt
      ]_vars

C16_Witness ==
    \E w \in Streams :
        /\ loop[w].initBuf = <<>>
        /\ loop[w].received = <<LF, "s", CR, "s", CR, LF>>
        /\ loop[w].events =
              <<"read", "read", "read", "read", "read", "read", "retry">>
        /\ loop[w].reprompt

\* The other display stream.
OtherPipe(which) == IF which = "recv" THEN "stderr" ELSE "stdout"

RECURSIVE Lines(_, _)

\* The bytes of rec in order, each LF or CR followed by one prefix.
Lines(rec, which) ==
    IF rec = <<>>
    THEN <<>>
    ELSE <<Head(rec)>>
            \o (IF Head(rec) \in {LF, CR} THEN _prefix(which) ELSE <<>>)
            \o Lines(Tail(rec), which)

\* What a printing invocation has shown after receiving rec.
Shown(rec, which) ==
    IF rec = <<>> THEN <<>> ELSE _prefix(which) \o Lines(rec, which)

\* C18: in capture mode with printing enabled, the display stream of the
\* invocation holds one prefix before the first received byte, then the
\* received bytes in order with one prefix right after each LF or CR, and
\* nothing else; nothing at all while no byte has been received; the other
\* display stream is not written.
C18_DisplayIsPrefixedLines ==
    \A w \in Streams :
        (Capturing(w) /\ loop[w].printing)
           => /\ loop[w][pipe(w)] = Shown(loop[w].received, w)
              /\ loop[w][OtherPipe(w)] = <<>>
              /\ loop[w].initial_prefix_printed <=> (loop[w].received # <<>>)
              /\ Count(loop[w][pipe(w)], _prefix(w)[1]) =
                    (IF loop[w].received = <<>> THEN 0 ELSE 1)
                       + Count(loop[w].received, LF)
                       + Count(loop[w].received, CR)

C18_Witness ==
    \E w \in Streams :
        /\ w = "recv_stderr"
        /\ Capturing(w)
        /\ loop[w].printing
        /\ loop[w].received = <<"p", LF, CR, "p", "s">>
        /\ loop[w].pc = "read"
        /\ Last(loop[w].events) = "send"
        /\ loop[w].stderr = <<"[host] err: ", "p", LF, "[host] err: ", CR,
                              "[host] err: ", "p", "s">>

\* The display streams of the invocation w are as they were.
DisplayUnchanged(w) ==
    /\ loop'[w].stdout = loop[w].stdout
    /\ loop'[w].stderr = loop[w].stderr

\* C19: when the operator has to be asked and printing is suppressed, the
\* step before the request appends to the invocation's display stream the
\* prefix, then, only if reprompt is set, the retry string with a line feed
\* and the prefix again, then the password prompt; with printing enabled it
\* appends nothing.  The request itself, the fetch from the cache and the
\* handling of a prompt resolved from the cache write nothing, and with
\* printing suppressed in capture mode nothing else is ever written.
C19_ContextBeforeAsking ==
    [][\A w \in Streams :
          /\ (loop[w].pc = "ask" /\ loop'[w].pc # "ask")
                => /\ loop'[w].pc = "asking"
                   /\ loop'[w].events = loop[w].events
                   /\ loop'[w][OtherPipe(w)] = loop[w][OtherPipe(w)]
                   /\ (~loop[w].printing /\ ~loop[w].reprompt)
                         => loop'[w][pipe(w)] =
                               loop[w][pipe(w)] \o _prefix(w) \o sudo_prompt
                   /\ (~loop[w].printing /\ loop[w].reprompt)
                         => loop'[w][pipe(w)] =
                               loop[w][pipe(w)] \o _prefix(w)
                                  \o again_prompt \o <<LF>> \o _prefix(w)
                                  \o sudo_prompt
                   /\ loop[w].printing
                         => loop'[w][pipe(w)] = loop[w][pipe(w)]
          /\ (loop[w].pc = "asking" /\ loop'[w].pc # "asking")
                => /\ Last(loop'[w].events) = "ask"
                   /\ DisplayUnchanged(w)
          /\ (loop[w].pc \in {"prompt", "set", "send"}
                /\ loop'[w].pc # loop[w].pc)
                => DisplayUnchanged(w)
          /\ (Capturing(w) /\ ~loop[w].printing /\ loop[w].pc = "read"
                /\ loop'[w].pc # "idle")
                => DisplayUnchanged(w)
      ]_vars

C19_Witness ==
    \E w \in Streams :
        /\ w = "recv"
        /\ ~loop[w].printing
        /\ loop[w].initBuf = <<"s">>
        /\ loop[w].received = <<LF, "p", "s">>
        /\ loop[w].pc = "set"
        /\ loop[w].stdout = <<"[host] out: ", "s", LF, "[host] out: ",
                              "p", "s">>
        /\ loop[w].stderr = <<>>

\* C20: the credential cache is written only by the step that follows an
\* interactive request, which sets it to the operator's answer; the channel
\* write that comes next sends that value.  Every other step of output_loop
\* (a byte without a match, a retry match, a prompt match resolved from the
\* cache, the request itself, the channel write, start and end) leaves the
\* cache as it was.
C20_CacheWrittenOnlyAfterAsking ==
    [][/\ \A w \in Streams :
             /\ (loop[w].pc = "asking" /\ loop'[w].pc # "asking")
                   => /\ loop'[w].password \in Passwords
                      /\ loop'[w].pc = "set"
             /\ (loop[w].pc = "set" /\ loop'[w].pc # "set")
                   => /\ Last(loop[w].events) = "ask"
                      /\ env_password' = loop[w].password
                      /\ loop'[w].password = loop[w].password
                      /\ loop'[w].sent = loop[w].sent
                      /\ loop'[w].pc = "send"
             /\ (loop[w].pc = "send" /\ loop'[w].pc # "send")
                   => /\ loop'[w].sent =
                            Append(loop[w].sent, env_password \o <<LF>>)
                      /\ loop[w].password = env_password
       /\ (\A w \in Streams : loop'[w].pc = loop[w].pc \/ loop[w].pc # "set")
             => env_password' = env_password
      ]_vars

C20_Witness ==
    \E w \in Streams :
        /\ loop[w].initBuf = <<"s">>
        /\ loop[w].received = <<"p", "s", LF, "p", "s">>
        /\ loop[w].events =
              <<"read", "read", "prompt", "del", "ask", "set", "send",
                "read", "retry", "read", "read", "prompt", "del", "ask",
                "set">>
        /\ loop[w].sent = <<<<"a", LF>>>>
        /\ loop[w].password = <<"b">>
        /\ env_password = <<"b">>
        /\ loop[w].pc = "send"

\* Everything of an invocation but the printing flag and the display: its
\* position, buffers, flags, bytes read, requests, cache writes (in the event
\* log) and channel writes.
Core(l) ==
    [pc |-> l.pc, capture |-> l.capture, callerBuf |-> l.callerBuf,
     sameList |-> l.sameList, reprompt |-> l.reprompt, byte |-> l.byte,
     password |-> l.password, received |-> l.received, sent |-> l.sent,
     events |-> l.events]

\* C17: two capture-mode runs given the same stream bytes, the same initial
\* buffer and cache and the same operator answers, one with printing enabled
\* and one with printing suppressed, agree at every step on the capture
\* buffer, the interactive requests, the cache and the channel writes.
C17_PrintingOnlyAffectsDisplay ==
    /\ Core(twin.on) = Core(twin.off)
    /\ twin.on_password = twin.off_password

C17_Witness ==
    /\ twin.which = "recv"
    /\ twin.on.printing /\ ~twin.off.printing
    /\ twin.on.pc = "done"
    /\ twin.on.initBuf = <<"s">>
    /\ twin.on.received = <<LF, "p", "s">>
    /\ twin.on.events = <<"read", "retry", "read", "read", "prompt", "del",
                          "ask", "set", "send", "eof">>
    /\ twin.on.stdout = <<"[host] out: ", LF, "[host] out: ", "p", "s">>
    /\ twin.off.stdout = <<"[host] out: ", "s", LF, "[host] out: ", "p", "s">>
    /\ twin.on.sent = twin.off.sent
    /\ twin.on_password = <<"b">>

\* C21 as stated: whatever the interleaving of the two relays, the password a
\* relay writes to the channel is the one the credential cache holds at the
\* moment of the write.
C21_WriteEqualsCache ==
    [][\A w \in Streams :
          (loop[w].pc = "send" /\ loop'[w].pc # "send")
             => Last(loop'[w].sent) = env_password \o <<LF>>
      ]_vars

\* C21, amended: a relay writes the password it resolved at its own prompt
\* match, which was the content of the cache when it resolved it (fetched
\* from the cache, or the operator's answer it stored itself); until the
\* write the two can differ only because the other relay has stored a
\* password in the meantime.
C21_WriteEqualsResolved ==
    [][\A w \in Streams :
          /\ (loop[w].pc # "send" /\ loop'[w].pc = "send")
                => /\ loop'[w].password = env_password'
                   /\ loop'[w].password # None
          /\ (loop[w].pc = "send" /\ loop'[w].pc # "send")
                => loop'[w].sent =
                      Append(loop[w].sent, loop[w].password \o <<LF>>)
          /\ ( /\ loop[w].pc = "send" /\ loop'[w].pc = "send"
               /\ loop[w].password = env_password
               /\ loop'[w].password # env_password' )
                => \E v \in Streams \ {w} :
                      /\ loop[v].pc = "set"
                      /\ loop'[v].pc = "send"
                      /\ env_password' = loop[v].password
      ]_vars

C21_Witness ==
    /\ loop["recv"].received = <<"p", "s">>
    /\ loop["recv_stderr"].received = <<"p", "s">>
    /\ loop["recv"].events =
          <<"read", "read", "prompt", "del", "ask", "set", "send">>
    /\ loop["recv_stderr"].events =
          <<"read", "read", "prompt", "del", "ask", "set">>
    /\ loop["recv"].sent = <<<<"a", LF>>>>
    /\ loop["recv_stderr"].pc = "send"
    /\ env_password = <<"b">>

\* The relay w detects a retry match in this step.
RetryStep(w) == loop'[w].events = loop[w].events \o <<"read", "retry">>

\* C22: with a relay on each stream running concurrently, the step in which
\* one relay detects a retry match leaves the other relay's reprompt flag,
\* capture buffer and every other local as they were; a relay's reprompt is
\* set only if that relay itself has seen a retry match; and a relay that
\* matches the password prompt with its own reprompt false and a password in
\* the cache goes to the channel write without asking, whatever the other
\* relay has seen.
C22_DetectionStateIsPrivate ==
    /\ [](\A w \in Streams :
            loop[w].reprompt => Count(loop[w].events, "retry") > 0)
    /\ [][\A w \in Streams : \A v \in Streams \ {w} :
            /\ RetryStep(w)
                  => /\ loop'[w].reprompt
                     /\ loop'[v] = loop[v]
            /\ ( /\ loop[v].pc = "prompt" /\ loop'[v].pc # "prompt"
                 /\ ~loop[v].reprompt
                 /\ env_password # None )
                  => /\ loop'[v].pc = "send"
                     /\ loop'[v].password = env_password
                     /\ Count(loop'[v].events, "ask")
                           = Count(loop[v].events, "ask")
         ]_vars

C22_Witness ==
    /\ loop["recv_stderr"].initBuf = <<"s">>
    /\ loop["recv_stderr"].received = <<LF>>
    /\ loop["recv_stderr"].reprompt
    /\ loop["recv_stderr"].pc = "read"
    /\ loop["recv"].received = <<"p", "s">>
    /\ loop["recv"].events = <<"read", "read", "prompt", "del", "send">>
    /\ loop["recv"].sent = <<<<"a", LF>>>>
    /\ ~loop["recv"].reprompt
    /\ env_password = <<"a">>

TypeOK ==
    \A w \in Streams :
        loop[w].pc \in {"idle", "read", "prompt", "ask", "asking", "set", "send", "done"}

====
